---- MODULE Spec2Model ----
(***************************************************************************)
(* Model of the famly-archiver acquisition stage (famly_downloader.py)     *)
(* and rendering stage (famly_generator.py).                               *)
(*                                                                         *)
(* JSON values are tagged records [t, v]: t is the JSON/Python type and v  *)
(* the text of the value.  Python dicts that the code builds are kept as   *)
(* insertion-ordered sequences of [k, val] pairs.  Strings the code        *)
(* compares or splits are sequences of tokens.                             *)
(***************************************************************************)
EXTENDS Integers, Sequences, FiniteSets, TLC

\* ------------------------------------------------------------------ bounds
MaxItems == 2
MaxObs == 2
\* longest feedItems list of a feed the downloader is run on repeatedly
MaxRerunItems == 1

\* ------------------------------------------------------------- JSON values
Str(s) == [t |-> "str", v |-> s]
Num(s) == [t |-> "int", v |-> s]
Missing == [t |-> "missing", v |-> ""]
Null == [t |-> "null", v |-> ""]

\* Python truthiness of a value fetched with dict.get
Truthy(x) ==
    /\ x.t \notin {"missing", "null"}
    /\ ~(x.t = "str" /\ x.v = "")
    /\ ~(x.t = "int" /\ x.v = "0")

\* createdDate strings: sequences of character codes
DateStr(s) == [t |-> "str", v |-> s]
DateMissing == [t |-> "missing", v |-> <<>>]

\* str < str in Python: lexicographic on the characters
RECURSIVE StrLT(_, _)
StrLT(a, b) ==
    IF b = <<>> THEN FALSE
    ELSE IF a = <<>> THEN TRUE
    ELSE IF Head(a) < Head(b) THEN TRUE
    ELSE IF Head(a) > Head(b) THEN FALSE
    ELSE StrLT(Tail(a), Tail(b))

\* URLs: the scheme and host, then the tokens of path and query
Url(netloc, rest) == [t |-> "str", netloc |-> netloc, rest |-> rest]
UrlMissing == [t |-> "missing", netloc |-> "", rest |-> <<>>]
UrlNull == [t |-> "null", netloc |-> "", rest |-> <<>>]
UrlTruthy(u) == u.t = "str" /\ ~(u.netloc = "" /\ u.rest = <<>>)

\* the tokens before the first sep: str.split(sep)[0]
RECURSIVE BeforeFirst(_, _)
BeforeFirst(s, sep) ==
    IF s = <<>> THEN <<>>
    ELSE IF Head(s) = sep THEN <<>>
    ELSE <<Head(s)>> \o BeforeFirst(Tail(s), sep)

\* str.split(sep): the sequence of parts
RECURSIVE Split(_, _)
Split(s, sep) ==
    IF \E k \in 1..Len(s) : s[k] = sep
    THEN <<BeforeFirst(s, sep)>>
         \o Split(SubSeq(s, Len(BeforeFirst(s, sep)) + 2, Len(s)), sep)
    ELSE <<s>>

\* urlparse(url).path: the query string is not part of the path
UrlPath(u) == BeforeFirst(u.rest, "?")

\* path_parts[-1] if len(path_parts) > 1 else 'jpg'
LastPartOrJpg(path) ==
    LET parts == Split(path, ".")
    IN IF Len(parts) > 1 THEN parts[Len(parts)] ELSE <<"jpg">>

\* f"{image_id}.{ext}"
\* ------------------------------------------------------------ Python dicts
DictHas(d, k) == \E n \in 1..Len(d) : d[n].k = k

DictGet(d, k) == d[CHOOSE n \in 1..Len(d) : d[n].k = k].val

\* d[k] = val: an existing key keeps its position
DictSet(d, k, val) ==
    IF DictHas(d, k)
    THEN [n \in 1..Len(d) |-> IF d[n].k = k THEN [k |-> k, val |-> val] ELSE d[n]]
    ELSE Append(d, [k |-> k, val |-> val])

\* ---------------------------------------------------------- the input feed
\* direct-URL image references of feed records
Img1 == [imageId |-> Str("img1"),
         url_big |-> Url("https://x", <<"/a", ".", "PNG", "?", "x=1">>),
         url |-> UrlMissing, width |-> Num("800"), height |-> Num("600")]
Img2 == [imageId |-> Num("7"), url_big |-> UrlMissing,
         url |-> Url("https://x", <<"/b">>), width |-> Missing, height |-> Missing]
ImgNoUrl == [imageId |-> Str("img3"), url_big |-> UrlMissing, url |-> UrlMissing,
             width |-> Missing, height |-> Missing]
ImgNoId == [imageId |-> Missing, url_big |-> UrlMissing,
            url |-> Url("https://x", <<"/c", ".", "png">>),
            width |-> Missing, height |-> Missing]
ImgNullBig == [imageId |-> Str("img4"), url_big |-> UrlNull,
               url |-> Url("https://x", <<"/d", ".", "jpg">>),
               width |-> Missing, height |-> Missing]

\* secret-addressed image references of observations
Secret(prefix, key, path, expires) ==
    [t |-> "dict", prefix |-> prefix, key |-> key, path |-> path, expires |-> expires]
SecretMissing == [t |-> "missing", prefix |-> "", key |-> "", path |-> <<>>, expires |-> <<>>]
OImg1 == [id |-> Str("o1"),
          secret |-> Secret("https://s", "k1", <<"p1", ".", "jpg">>,
                            <<"t1", ":", "t2", "+", "t3">>),
          width |-> Missing, height |-> Missing]
OImgNoSecret == [id |-> Str("o2"), secret |-> SecretMissing,
                 width |-> Num("100"), height |-> Num("100")]
OImg7 == [id |-> Str("7"), secret |-> Secret("https://s", "k7", <<"p7">>, <<>>),
          width |-> Num("100"), height |-> Num("100")]
OImgQuery == [id |-> Str("oq"),
              secret |-> Secret("https://s", "kq", <<"pq", ".", "jpg", "?", "v=2">>, <<>>),
              width |-> Missing, height |-> Missing]

\* observations: a string id, the same id again, a numeric id
Obs1 == [id |-> Str("obs-1"), remark |-> "r1", images |-> <<OImg1, OImgNoSecret>>]
Obs1b == [id |-> Str("obs-1"), remark |-> "r1b", images |-> <<OImgQuery>>]
Obs7 == [id |-> Num("7"), remark |-> "r7", images |-> <<OImg7>>]
ObservationRecords == {Obs1, Obs1b, Obs7}

\* embed tags
Embed(type, observationId) == [t |-> "dict", type |-> type, observationId |-> observationId]
EmbedNull == [t |-> "null", type |-> "", observationId |-> Missing]
EmbedMissing == [t |-> "missing", type |-> "", observationId |-> Missing]

\* createdDate strings; the two-character ones are ISO dates, character 90
\* is 'Z' and character 43 the '+00:00' that format_date puts in its place
Date11 == DateStr(<<1, 1>>)
Date12 == DateStr(<<1, 2>>)
Date12Z == DateStr(<<1, 2, 90>>)
DateBad == DateStr(<<9>>)
DateNull == [t |-> "null", v |-> <<>>]

\* body and richTextBody: sequences of text tokens
Text(s) == [t |-> "str", v |-> s]
TextMissing == [t |-> "missing", v |-> <<>>]

FeedRecords == {
    [feedItemId |-> Str("plain"), createdDate |-> Date12Z, images |-> <<>>,
     embed |-> EmbedNull,
     body |-> Text(<<"Hi">>), richTextBody |-> TextMissing],
    [feedItemId |-> Str("photos"), createdDate |-> Date11, images |-> <<Img1, Img2>>,
     embed |-> EmbedMissing,
     body |-> Text(<<"a", "<", "b", "\n", "c">>), richTextBody |-> Text(<<>>)],
    [feedItemId |-> Str("obs"), createdDate |-> Date11, images |-> <<Img1>>,
     embed |-> Embed("Observation", Str("obs-1")),
     body |-> Text(<<"x">>), richTextBody |-> Text(<<"<", "p", ">", "x">>)],
    [feedItemId |-> Str("obs7"), createdDate |-> DateMissing, images |-> <<ImgNoUrl>>,
     embed |-> Embed("Observation", Num("7")),
     body |-> TextMissing, richTextBody |-> TextMissing],
    [feedItemId |-> Str("other"), createdDate |-> DateBad, images |-> <<ImgNullBig>>,
     embed |-> Embed("Other", Str("obs-1")),
     body |-> TextMissing, richTextBody |-> Text(<<"Hi", "&", "<", "b", ">">>)],
    [feedItemId |-> Str("obsnoid"), createdDate |-> DateNull, images |-> <<>>,
     embed |-> Embed("Observation", Missing),
     body |-> Text(<<>>), richTextBody |-> TextMissing],
    [feedItemId |-> Str("badref"), createdDate |-> Date12, images |-> <<Img2, ImgNoId>>,
     embed |-> EmbedMissing,
     body |-> TextMissing, richTextBody |-> TextMissing] }

\* the lists of at most n records of S, no record listed twice
SeqUpTo(S, n) ==
    {s \in UNION {[1..m -> S] : m \in 0..n} :
        \A a, b \in DOMAIN s : a # b => s[a] # s[b]}

\* the feed's exportDate: a time stamp, or a string with the escape of a
\* lone surrogate, which json.load accepts and which cannot be encoded as
\* UTF-8; NoExportDate stands for the value of a file that holds none
NoExportDate == "none"
Unencodable == "lone surrogate"
ExportDates == {"t1", Unencodable}

FeedDocuments ==
    [t : {"dict"},
     feedItems : SeqUpTo(FeedRecords, MaxItems),
     observations : SeqUpTo(ObservationRecords, MaxObs),
     exportDate : ExportDates]

\* the path given to main() names no file, or a file that is no JSON
MissingInput == [t |-> "missing", feedItems |-> <<>>, observations |-> <<>>,
                 exportDate |-> NoExportDate]
MalformedInput == [t |-> "malformed", feedItems |-> <<>>, observations |-> <<>>,
                   exportDate |-> NoExportDate]
InputFiles == FeedDocuments \cup {MissingInput, MalformedInput}

\* outcomes of one requests.get + file write
Outcomes == {"ok", "fetch_error", "write_error"}

\* what datetime.now() can return: two readings of the wall clock, which
\* nothing keeps from being set back between two runs
Clock == {"t1", "t2"}
NoStamp == "never"

NoFile == [written |-> FALSE, valid |-> FALSE, processed_items |-> <<>>,
           observations |-> <<>>,
           export_date |-> NoExportDate, total_items |-> 0]
NoDocument == [written |-> FALSE, exported_on |-> NoStamp, total_items |-> 0,
               total_photos |-> 0, entries |-> <<>>]

VARIABLES
    json_file,           \* the feed document on disk
    feed_data,           \* FamlyDownloader.feed_data
    observations,        \* FamlyDownloader.observations
    pc,                  \* position of the pipeline
    i,                   \* index of the feed item being processed
    j,                   \* index of the image being acquired
    local_images,        \* process_feed_item: local_images
    observation_images,  \* process_feed_item: observation_images
    fetches,             \* outcomes of the requests made for the current item
    processed_items,     \* download_all_images: processed_items
    images_dir,          \* names of the files in images/
    truncated,           \* names of the files in images/ whose write failed
    metadata_file,       \* metadata.json on disk
    gen_items,           \* FamlyGenerator.processed_items
    gen_observations,    \* FamlyGenerator.observations
    posts_only,          \* generate_posts_only_html: posts_only
    index_html,          \* index.html on disk
    posts_only_html,     \* posts-only.html on disk
    gen_input,           \* the file famly_generator.py was last started on
    html_content         \* FamlyArchiver.generate_html: html_content

vars == <<json_file, feed_data, observations, pc, i, j, local_images,
          observation_images, fetches, processed_items, images_dir, truncated, metadata_file,
          gen_items, gen_observations, posts_only, index_html, posts_only_html,
          gen_input, html_content>>

downloaderVars == <<feed_data, observations, i, j, local_images, observation_images,
                    fetches, processed_items, images_dir, truncated>>
generatorVars == <<gen_items, gen_observations, posts_only, index_html, posts_only_html,
                   gen_input, html_content>>

Init ==
    /\ json_file \in InputFiles
    /\ feed_data = [t |-> "dict", feedItems |-> <<>>, observations |-> <<>>,
                    exportDate |-> NoExportDate]
    /\ observations = <<>>
    /\ pc = "start"
    /\ i = 0
    /\ j = 0
    /\ local_images = <<>>
    /\ observation_images = <<>>
    /\ fetches = <<>>
    /\ processed_items = <<>>
    /\ images_dir = {}
    /\ truncated = {}
    /\ metadata_file = NoFile
    /\ gen_items = <<>>
    /\ gen_observations = <<>>
    /\ posts_only = <<>>
    /\ index_html = NoDocument
    /\ posts_only_html = NoDocument
    /\ gen_input = [given |-> FALSE, file |-> NoFile]
    /\ html_content = <<>>

\* ------------------------------------------------- FamlyDownloader.__init__
\* variant: an id already in the lookup keeps its first observation
RECURSIVE BuildObservationsFirstWins(_)
BuildObservationsFirstWins(obsList) ==
    IF obsList = <<>> THEN <<>>
    ELSE LET front == SubSeq(obsList, 1, Len(obsList) - 1)
             obs == obsList[Len(obsList)]
             built == BuildObservationsFirstWins(front)
         IN IF DictHas(built, obs.id) THEN built ELSE DictSet(built, obs.id, obs)

RECURSIVE BuildObservations(_)
BuildObservations(obsList) ==
    IF obsList = <<>> THEN <<>>
    ELSE LET front == SubSeq(obsList, 1, Len(obsList) - 1)
             obs == obsList[Len(obsList)]
         IN DictSet(BuildObservations(front), obs.id, obs)

\* os.path.exists(json_file)
Exists(file) == file.t # "missing"

\* variant: a file that does not parse is read as an empty document
LoadFeedLenient(file) ==
    IF file.t = "malformed"
    THEN [t |-> "dict", feedItems |-> <<>>, observations |-> <<>>,
                    exportDate |-> NoExportDate]
    ELSE file

\* json.load(f): the document, or the JSONDecodeError raised
LoadFeed(file) ==
    IF file.t = "malformed"
    THEN [t |-> "raise", feedItems |-> <<>>, observations |-> <<>>,
          exportDate |-> NoExportDate]
    ELSE file

\* the exit status of a process that ended at position p: sys.exit(1) and
\* an uncaught exception both give 1
ExitCode(p) == IF p \in {"exit1", "crashed"} THEN 1 ELSE 0

\* main() up to the end of __init__
DownloaderInit ==
    /\ pc = "start"
    /\ IF ~Exists(json_file)
       THEN pc' = "exit1" /\ UNCHANGED <<feed_data, observations>>
       ELSE IF LoadFeed(json_file).t = "raise"
       THEN pc' = "crashed" /\ UNCHANGED <<feed_data, observations>>
       ELSE /\ feed_data' = LoadFeed(json_file)
            /\ observations' = BuildObservations(LoadFeed(json_file).observations)
            /\ pc' = "loaded"
    /\ UNCHANGED <<json_file, i, j, local_images, observation_images, fetches,
                   processed_items, images_dir, truncated, metadata_file>>
    /\ UNCHANGED generatorVars

\* ------------------------------------------------------ download_all_images
\* key=lambda x: x.get('createdDate', '')
SortKey(x) == x.createdDate.v

\* list.sort(reverse=True) is stable: equal keys keep their input order
RECURSIVE InsertDescending(_, _)
InsertDescending(sorted, x) ==
    IF sorted = <<>> THEN <<x>>
    ELSE IF StrLT(SortKey(Head(sorted)), SortKey(x))
         THEN <<x>> \o sorted
         ELSE <<Head(sorted)>> \o InsertDescending(Tail(sorted), x)

\* variant: reverse=True left out, ascending order
RECURSIVE SortAscending(_)
SortAscending(items) ==
    IF items = <<>> THEN <<>>
    ELSE LET rest == SortAscending(SubSeq(items, 1, Len(items) - 1))
             x == items[Len(items)]
             smaller == SelectSeq(rest, LAMBDA y : ~StrLT(SortKey(x), SortKey(y)))
             larger == SelectSeq(rest, LAMBDA y : StrLT(SortKey(x), SortKey(y)))
         IN smaller \o <<x>> \o larger

RECURSIVE SortFeedItems(_)
SortFeedItems(items) ==
    IF items = <<>> THEN <<>>
    ELSE InsertDescending(SortFeedItems(SubSeq(items, 1, Len(items) - 1)),
                          items[Len(items)])

\* None < str raises TypeError: the sort compares every key once there are two
SortRaises(items) ==
    /\ Len(items) >= 2
    /\ \E n \in 1..Len(items) : items[n].createdDate.t = "null"

\* the sort and the loop set-up: the sort is in place, on feed_data
BeginDownload ==
    /\ pc = "loaded"
    /\ IF SortRaises(feed_data.feedItems)
       THEN /\ pc' = "crashed"
            /\ UNCHANGED <<feed_data, processed_items, i, j, local_images,
                           observation_images, fetches>>
       ELSE /\ feed_data' = [feed_data EXCEPT !.feedItems = SortFeedItems(@)]
            /\ processed_items' = <<>>
            /\ IF Len(feed_data.feedItems) = 0
               THEN pc' = "save" /\ i' = 0
               ELSE pc' = "images" /\ i' = 1
            /\ j' = 1
            /\ local_images' = <<>>
            /\ observation_images' = <<>>
            /\ fetches' = <<>>
    /\ UNCHANGED <<json_file, observations, images_dir, truncated, metadata_file>>
    /\ UNCHANGED generatorVars

\* -------------------------------------------------------- process_feed_item
\* variant: a name already taken in images/ is not reused
FileNameNoOverwrite(id, ext) ==
    IF [id |-> id.v, ext |-> ext] \in images_dir
    THEN [id |-> id.v, ext |-> ext \o <<"1">>]
    ELSE [id |-> id.v, ext |-> ext]

\* f"{image_id}.{ext}"
FileName(id, ext) ==
    [id |-> IF id.t = "null" THEN "None" ELSE id.v, ext |-> ext]

NoName == [id |-> "", ext |-> <<>>]

\* image.get('url_big', image.get('url'))
ImageUrl(image) == IF image.url_big.t # "missing" THEN image.url_big ELSE image.url

\* variant: the response status is not checked
DownloadImageNoStatusCheck(image_url, image_id, outcome) ==
    IF outcome # "write_error"
    THEN FileName(image_id, BeforeFirst(LastPartOrJpg(UrlPath(image_url)), "?"))
    ELSE NoName

\* download_image: the file name returned, NoName for None
DownloadImage(image_url, image_id, outcome) ==
    IF outcome = "ok"
    THEN FileName(image_id, BeforeFirst(LastPartOrJpg(UrlPath(image_url)), "?"))
    ELSE NoName

\* download_image: the file open(filepath, 'wb') creates or empties, NoName
\* when the request raised before it
OpenedImage(image_url, image_id, outcome) ==
    IF outcome # "fetch_error"
    THEN FileName(image_id, BeforeFirst(LastPartOrJpg(UrlPath(image_url)), "?"))
    ELSE NoName

\* with open(filepath, 'wb') as f: f.write(response.content)
\* the files of images/ after the write; a write that raises leaves the
\* emptied file behind
FilesAfter(files, opened) == IF opened = NoName THEN files ELSE files \cup {opened}

TruncatedAfter(files, opened, outcome) ==
    IF opened = NoName THEN files
    ELSE IF outcome = "ok" THEN files \ {opened}
    ELSE files \cup {opened}

\* image.get(key, 0)
GetOr0(x) == IF x.t = "missing" THEN Num("0") ELSE x

ImageEntry(image, filename) ==
    [filename |-> filename, width |-> GetOr0(image.width), height |-> GetOr0(image.height)]

\* variant: insert(0, ...) instead of append
PrependImage(images, entry) == <<entry>> \o images

\* local_images.append(...)
AppendImage(images, entry) == Append(images, entry)

\* the body of the loop over item['images'], for image j
AcquireImage ==
    /\ pc = "images"
    /\ j <= Len(feed_data.feedItems[i].images)
    /\ LET image == feed_data.feedItems[i].images[j]
           image_url == ImageUrl(image)
       IN IF ~UrlTruthy(image_url)
          THEN /\ pc' = pc /\ j' = j + 1
               /\ UNCHANGED <<local_images, fetches, images_dir, truncated>>
          ELSE IF image.imageId.t = "missing"
          THEN \* image['imageId'] raises KeyError outside any try
               /\ pc' = "crashed"
               /\ UNCHANGED <<j, local_images, fetches, images_dir, truncated>>
          ELSE \E outcome \in Outcomes :
               LET local_filename == DownloadImage(image_url, image.imageId, outcome)
                   opened == OpenedImage(image_url, image.imageId, outcome)
               IN /\ pc' = pc /\ j' = j + 1
                  /\ images_dir' = FilesAfter(images_dir, opened)
                  /\ truncated' = TruncatedAfter(truncated, opened, outcome)
                  /\ fetches' = Append(fetches, [kind |-> "image", outcome |-> outcome,
                                                url |-> image_url])
                  /\ IF local_filename # NoName
                     THEN local_images' = AppendImage(local_images, ImageEntry(image, local_filename))
                     ELSE UNCHANGED local_images
    /\ UNCHANGED <<json_file, feed_data, observations, i, observation_images,
                   processed_items, metadata_file>>
    /\ UNCHANGED generatorVars

\* embed and embed.get('type') == 'Observation'
IsObservationEmbed(embed) == embed.t = "dict" /\ embed.type = "Observation"

\* observation_id and observation_id in self.observations
ObservationResolves(embed, obsDict) ==
    /\ IsObservationEmbed(embed)
    /\ Truthy(embed.observationId)
    /\ DictHas(obsDict, embed.observationId)

\* the images of the observation the item embeds, <<>> when there is none
ObservationImagesOf(item, obsDict) ==
    IF ObservationResolves(item.embed, obsDict)
    THEN DictGet(obsDict, item.embed.observationId).images
    ELSE <<>>

\* the end of the image loop and the embed checks
ResolveObservation ==
    /\ pc = "images"
    /\ j > Len(feed_data.feedItems[i].images)
    /\ pc' = IF ObservationImagesOf(feed_data.feedItems[i], observations) # <<>>
             THEN "obs_images" ELSE "return"
    /\ j' = 1
    /\ UNCHANGED <<json_file, feed_data, observations, i, local_images,
                   observation_images, fetches, processed_items, images_dir, truncated, metadata_file>>
    /\ UNCHANGED generatorVars

\* str.replace(':', '%3A').replace('+', '%2B')
EncodeExpires(expires) ==
    [n \in 1..Len(expires) |-> IF expires[n] = ":" THEN "%3A"
                               ELSE IF expires[n] = "+" THEN "%2B"
                               ELSE expires[n]]

\* image_data.get(key, default), as formatted into the URL
SizeOr(x, default) == IF x.t = "missing" THEN default ELSE x.v

\* the URL download_observation_image requests
ObservationImageUrl(image_data) ==
    LET secret == image_data.secret
        sized == <<"/", secret.key, "/", SizeOr(image_data.width, "520"), "x",
                   SizeOr(image_data.height, "1040"), "/">> \o secret.path
    IN Url(secret.prefix,
           IF secret.expires # <<>>
           THEN sized \o <<"?expires=">> \o EncodeExpires(secret.expires)
           ELSE sized)

\* download_observation_image: the file name returned, NoName for None
DownloadObservationImage(image_data, outcome) ==
    IF image_data.secret.t = "missing" THEN NoName
    ELSE IF outcome = "fetch_error" THEN NoName
    ELSE IF image_data.id.t = "missing" THEN NoName
    ELSE IF outcome = "write_error" THEN NoName
    ELSE FileName(image_data.id, LastPartOrJpg(image_data.secret.path))

\* download_observation_image: the file open(filepath, 'wb') creates or
\* empties, NoName when an earlier statement raised
OpenedObservationImage(image_data, outcome) ==
    IF image_data.secret.t = "missing" THEN NoName
    ELSE IF outcome = "fetch_error" THEN NoName
    ELSE IF image_data.id.t = "missing" THEN NoName
    ELSE FileName(image_data.id, LastPartOrJpg(image_data.secret.path))

ObservationImageEntry(obs_image, filename) ==
    [filename |-> filename, width |-> GetOr0(obs_image.width),
     height |-> GetOr0(obs_image.height), id |-> obs_image.id]

\* the body of the loop over obs['images'], for image j
AcquireObservationImage ==
    /\ pc = "obs_images"
    /\ LET obs_images == ObservationImagesOf(feed_data.feedItems[i], observations)
       IN /\ j <= Len(obs_images)
          /\ \E outcome \in Outcomes :
             LET local_filename == DownloadObservationImage(obs_images[j], outcome)
                 opened == OpenedObservationImage(obs_images[j], outcome)
             IN /\ images_dir' = FilesAfter(images_dir, opened)
                /\ truncated' = TruncatedAfter(truncated, opened, outcome)
                /\ fetches' = IF obs_images[j].secret.t = "missing"
                            THEN fetches  \* KeyError before any request
                            ELSE Append(fetches, [kind |-> "observation",
                                                  outcome |-> outcome,
                                                  url |-> ObservationImageUrl(obs_images[j])])
                /\ IF local_filename # NoName
                   THEN observation_images' =
                              AppendImage(observation_images,
                                          ObservationImageEntry(obs_images[j], local_filename))
                   ELSE UNCHANGED observation_images
          /\ j' = j + 1
          /\ pc' = IF j = Len(obs_images) THEN "return" ELSE pc
    /\ UNCHANGED <<json_file, feed_data, observations, i, local_images,
                   processed_items, metadata_file>>
    /\ UNCHANGED generatorVars

\* the dict process_feed_item returns
ProcessedItem(item, images, obs_images) ==
    [feedItemId |-> IF item.feedItemId.t = "missing" THEN Str("") ELSE item.feedItemId,
     createdDate |-> IF item.createdDate.t = "missing" THEN DateStr(<<>>) ELSE item.createdDate,
     images |-> images,
     embed |-> IF item.embed.t = "missing" THEN EmbedNull ELSE item.embed,
     body |-> IF item.body.t = "missing" THEN Text(<<>>) ELSE item.body,
     richTextBody |-> IF item.richTextBody.t = "missing" THEN Text(<<>>)
                      ELSE item.richTextBody,
     observation_images |-> obs_images]

\* variant: an item that acquired no image is not appended
AppendProcessedSkipEmpty(items, processed_item) ==
    IF processed_item.images = <<>> /\ processed_item.observation_images = <<>>
    THEN items
    ELSE Append(items, processed_item)

\* processed_items.append(processed_item)
AppendProcessed(items, processed_item) == Append(items, processed_item)

\* the return of process_feed_item and the rest of the loop body
ReturnItem ==
    /\ pc = "return"
    /\ processed_items' =
          AppendProcessed(processed_items,
                          ProcessedItem(feed_data.feedItems[i], local_images, observation_images))
    /\ IF i = Len(feed_data.feedItems)
       THEN pc' = "save" /\ UNCHANGED <<i, j, local_images, observation_images, fetches>>
       ELSE /\ pc' = "images"
            /\ i' = i + 1
            /\ j' = 1
            /\ local_images' = <<>>
            /\ observation_images' = <<>>
            /\ fetches' = <<>>
    /\ UNCHANGED <<json_file, feed_data, observations, images_dir, truncated, metadata_file>>
    /\ UNCHANGED generatorVars

\* ------------------------------------------------------------ metadata.json
\* json.dump writes every dict key as a string
JsonKey(k) == IF k.t = "null" THEN Str("null") ELSE Str(k.v)

JsonDumpDict(d) == [n \in 1..Len(d) |-> [k |-> JsonKey(d[n].k), val |-> d[n].val]]

\* json.load of an object: a repeated key keeps the last value
RECURSIVE JsonLoadDict(_)
JsonLoadDict(pairs) ==
    IF pairs = <<>> THEN <<>>
    ELSE LET last == pairs[Len(pairs)]
         IN DictSet(JsonLoadDict(SubSeq(pairs, 1, Len(pairs) - 1)), last.k, last.val)

\* f.write(chunk) raises UnicodeEncodeError inside json.dump
DumpRaises(export_date) == export_date = Unencodable

\* open(metadata_file, 'w') and json.dump: the file is truncated and the
\* keys are written in order; when a chunk cannot be encoded the exception
\* leaves the file with what was written before it
SaveMetadata ==
    /\ pc = "save"
    /\ IF DumpRaises(feed_data.exportDate)
       THEN /\ metadata_file' = [written |-> TRUE,
                                 valid |-> FALSE,
                                 processed_items |-> processed_items,
                                 observations |-> JsonDumpDict(observations),
                                 export_date |-> NoExportDate,
                                 total_items |-> 0]
            /\ pc' = "crashed"
       ELSE /\ metadata_file' = [written |-> TRUE,
                                 valid |-> TRUE,
                                 processed_items |-> processed_items,
                                 observations |-> JsonDumpDict(observations),
                                 export_date |-> feed_data.exportDate,
                                 total_items |-> Len(processed_items)]
            /\ pc' = "saved"
    /\ UNCHANGED <<json_file>>
    /\ UNCHANGED downloaderVars
    /\ UNCHANGED generatorVars

\* -------------------------------------------------- FamlyGenerator.__init__
\* a file that is not JSON, given to famly_generator.py as its metadata file
MalformedFile == [NoFile EXCEPT !.written = TRUE]

\* main() of famly_generator.py up to the end of __init__, started once a
\* program has ended, on metadata.json or on another file
GeneratorInit ==
    /\ pc \in {"saved", "rendered", "crashed", "exit1"}
    /\ \E file \in {metadata_file, MalformedFile} :
          /\ gen_input' = [given |-> TRUE, file |-> file]
          /\ IF ~file.written
             THEN pc' = "exit1" /\ UNCHANGED <<gen_items, gen_observations>>
             ELSE IF ~file.valid
             THEN pc' = "crashed" /\ UNCHANGED <<gen_items, gen_observations>>
             ELSE /\ gen_items' = file.processed_items
                  /\ gen_observations' = JsonLoadDict(file.observations)
                  /\ pc' = "gen_loaded"
    /\ UNCHANGED <<json_file, metadata_file, posts_only, index_html, posts_only_html,
                   html_content>>
    /\ UNCHANGED downloaderVars

\* ------------------------------------------------------------ the renderer
IsoDates == {<<1, 1>>, <<1, 2>>, <<1, 1, 43>>, <<1, 2, 43>>}

\* date_str.replace('Z', '+00:00')
ReplaceZ(s) == [n \in 1..Len(s) |-> IF s[n] = 90 THEN 43 ELSE s[n]]

\* the try block of format_date: the formatted date (strftime prints no
\* offset), or the exception raised: a value that is no string has no
\* replace method, a string that is no ISO date does not parse
TryFormatDate(date_str) ==
    IF date_str.t # "str" THEN [t |-> "raise", v |-> "AttributeError"]
    ELSE IF ReplaceZ(date_str.v) \notin IsoDates THEN [t |-> "raise", v |-> "ValueError"]
    ELSE [t |-> "formatted", v |-> SubSeq(date_str.v, 1, 2)]

\* variant: except ValueError
CatchesValueError(exception) == exception = "ValueError"

\* the bare except of format_date
Catches(exception) == TRUE

\* format_date: the formatted date, the input when the try block raised and
\* the except clause caught it, the exception when it did not
FormatDate(date_str) ==
    LET result == TryFormatDate(date_str)
    IN IF result.t = "raise" /\ Catches(result.v) THEN date_str ELSE result

\* an exception leaves generate_html
RenderRaises(items) ==
    \E n \in 1..Len(items) : FormatDate(items[n].createdDate).t = "raise"

\* html.escape(text).replace('\n', '<br>')
EscapeToken(c) ==
    IF c = "&" THEN "&amp;"
    ELSE IF c = "<" THEN "&lt;"
    ELSE IF c = ">" THEN "&gt;"
    ELSE IF c = "\n" THEN "<br>"
    ELSE c

EscapeHtml(text) == [n \in 1..Len(text) |-> EscapeToken(text[n])]

\* post_body of generate_html: <<>> when no post-body div is written
PostBody(item) ==
    LET post_body == IF item.richTextBody.t # "missing" THEN item.richTextBody
                     ELSE IF item.body.t # "missing" THEN item.body
                     ELSE Text(<<>>)
    IN IF post_body.t = "str" /\ post_body.v # <<>> /\ Head(post_body.v) # "<"
       THEN EscapeHtml(post_body.v)
       ELSE IF post_body.t = "str" THEN post_body.v
       ELSE <<>>

FileNames(images) == [n \in 1..Len(images) |-> images[n].filename]

NoBlock == [shown |-> FALSE, remark |-> "", images |-> <<>>]

\* the conditions under which generate_html opens the observation div
RendersObservationBlock(item, obsDict) ==
    /\ item.embed.t = "dict"
    /\ item.embed.type = "Observation"
    /\ Truthy(item.embed.observationId)
    /\ DictHas(obsDict, item.embed.observationId)

\* variant: the block is opened for every Observation embed
ObservationBlockWithoutLookup(item, obsDict) ==
    IF item.embed.t = "dict" /\ item.embed.type = "Observation"
    THEN [shown |-> TRUE,
          remark |-> IF RendersObservationBlock(item, obsDict)
                     THEN DictGet(obsDict, item.embed.observationId).remark
                     ELSE "",
          images |-> FileNames(item.observation_images)]
    ELSE NoBlock

ObservationBlock(item, obsDict) ==
    IF RendersObservationBlock(item, obsDict)
    THEN [shown |-> TRUE,
          remark |-> DictGet(obsDict, item.embed.observationId).remark,
          images |-> FileNames(item.observation_images)]
    ELSE NoBlock

\* one feed-item div of index.html
RenderItem(item, obsDict) ==
    [post_date |-> FormatDate(item.createdDate),
     post_body |-> PostBody(item),
     images |-> FileNames(item.images),
     observation |-> ObservationBlock(item, obsDict)]

\* one feed-item div of posts-only.html: regular images only
RenderPost(item) ==
    [post_date |-> FormatDate(item.createdDate),
     post_body |-> PostBody(item),
     images |-> FileNames(item.images),
     observation |-> NoBlock]

RECURSIVE CountPhotos(_, _)
CountPhotos(items, withObservations) ==
    IF items = <<>> THEN 0
    ELSE Len(Head(items).images)
         + (IF withObservations THEN Len(Head(items).observation_images) ELSE 0)
         + CountPhotos(Tail(items), withObservations)

\* variant: index.html opened for appending
GenerateHtmlAppending(items, obsDict, now) ==
    [written |-> TRUE,
     exported_on |-> now,
     total_items |-> Len(items),
     total_photos |-> CountPhotos(items, TRUE),
     entries |-> index_html.entries
                 \o [n \in 1..Len(items) |-> RenderItem(items[n], obsDict)]]

GenerateHtml(items, obsDict, now) ==
    [written |-> TRUE,
     exported_on |-> now,
     total_items |-> Len(items),
     total_photos |-> CountPhotos(items, TRUE),
     entries |-> [n \in 1..Len(items) |-> RenderItem(items[n], obsDict)]]

\* variant: only an embed that resolves takes the item out of the view
KeptUnlessResolved(item) == ~RendersObservationBlock(item, gen_observations)

\* the test of the posts_only list comprehension
KeptInPostsOnly(item) == ~(item.embed.t = "dict" /\ item.embed.type = "Observation")

RECURSIVE PostsOnly(_)
PostsOnly(items) ==
    IF items = <<>> THEN <<>>
    ELSE IF KeptInPostsOnly(Head(items))
         THEN <<Head(items)>> \o PostsOnly(Tail(items))
         ELSE PostsOnly(Tail(items))

GeneratePostsOnlyHtml(posts, now) ==
    [written |-> TRUE,
     exported_on |-> now,
     total_items |-> Len(posts),
     total_photos |-> CountPhotos(posts, FALSE),
     entries |-> [n \in 1..Len(posts) |-> RenderPost(posts[n])]]

\* create_html_archive: the pages of one run carry the clock reading of
\* that run
CreateHtmlArchive ==
    /\ pc = "gen_loaded"
    /\ IF RenderRaises(gen_items)
       THEN /\ pc' = "crashed"
            /\ UNCHANGED <<index_html, posts_only_html, posts_only>>
       ELSE /\ \E now \in Clock :
                  /\ index_html' = GenerateHtml(gen_items, gen_observations, now)
                  /\ posts_only_html' = GeneratePostsOnlyHtml(PostsOnly(gen_items), now)
            /\ posts_only' = PostsOnly(gen_items)
            /\ pc' = "rendered"
    /\ UNCHANGED <<json_file, metadata_file, gen_items, gen_observations, gen_input,
                   html_content>>
    /\ UNCHANGED downloaderVars

\* ------------------------------------------------------- the specification
Next ==
    \/ DownloaderInit
    \/ BeginDownload
    \/ AcquireImage
    \/ ResolveObservation
    \/ AcquireObservationImage
    \/ ReturnItem
    \/ SaveMetadata
    \/ GeneratorInit
    \/ CreateHtmlArchive

Spec == Init /\ [][Next]_vars

\* ------------------------------------------- running the downloader again
\* main() of famly_downloader.py started once more on the same feed file:
\* a new FamlyDownloader, the images directory and metadata.json as they are
RerunDownloader ==
    /\ pc \in {"saved", "crashed", "exit1"}
    /\ pc' = "start"
    /\ feed_data' = [t |-> "dict", feedItems |-> <<>>, observations |-> <<>>,
                    exportDate |-> NoExportDate]
    /\ observations' = <<>>
    /\ i' = 0
    /\ j' = 0
    /\ local_images' = <<>>
    /\ observation_images' = <<>>
    /\ fetches' = <<>>
    /\ processed_items' = <<>>
    /\ UNCHANGED <<json_file, images_dir, truncated, metadata_file>>
    /\ UNCHANGED generatorVars

RerunNext ==
    \/ DownloaderInit
    \/ BeginDownload
    \/ AcquireImage
    \/ ResolveObservation
    \/ AcquireObservationImage
    \/ ReturnItem
    \/ SaveMetadata
    \/ RerunDownloader

RerunInit == Init /\ Len(json_file.feedItems) <= MaxRerunItems

RerunSpec == RerunInit /\ [][RerunNext]_vars

\* ===================================================== famly_archiver.py
\* FamlyArchiver.__init__ and download_image are those of the downloader
\* (DownloaderInit, DownloadImage), and so is the image loop (AcquireImage).

\* create_archive: the sort and the loop set-up
BeginArchive ==
    /\ pc = "loaded"
    /\ IF SortRaises(feed_data.feedItems)
       THEN /\ pc' = "crashed"
            /\ UNCHANGED <<feed_data, i>>
       ELSE /\ feed_data' = [feed_data EXCEPT !.feedItems = SortFeedItems(@)]
            /\ pc' = IF Len(feed_data.feedItems) = 0 THEN "arch_render" ELSE "images"
            /\ i' = 1
    /\ j' = 1
    /\ UNCHANGED <<json_file, observations, local_images, observation_images, fetches,
                   processed_items, images_dir, truncated, metadata_file>>
    /\ UNCHANGED generatorVars

\* self.observations.get(observation_id) under the embed checks: <<obs>>,
\* or <<>> for None
ArchiverObservationData(item, obsDict) ==
    IF ObservationResolves(item.embed, obsDict)
    THEN <<DictGet(obsDict, item.embed.observationId)>>
    ELSE <<>>

\* the dict FamlyArchiver.process_feed_item returns
ArchiverProcessedItem(item, images, obsDict) ==
    [feedItemId |-> IF item.feedItemId.t = "missing" THEN Str("") ELSE item.feedItemId,
     createdDate |-> IF item.createdDate.t = "missing" THEN DateStr(<<>>) ELSE item.createdDate,
     images |-> images,
     embed |-> IF item.embed.t = "missing" THEN EmbedNull ELSE item.embed,
     body |-> IF item.body.t = "missing" THEN Text(<<>>) ELSE item.body,
     richTextBody |-> IF item.richTextBody.t = "missing" THEN Text(<<>>)
                      ELSE item.richTextBody,
     observation |-> ArchiverObservationData(item, obsDict)]

\* the end of the image loop, the embed checks, the return and the rest of
\* the loop body of create_archive
ArchiverReturnItem ==
    /\ pc = "images"
    /\ j > Len(feed_data.feedItems[i].images)
    /\ processed_items' =
          Append(processed_items,
                 ArchiverProcessedItem(feed_data.feedItems[i], local_images, observations))
    /\ IF i = Len(feed_data.feedItems)
       THEN pc' = "arch_render" /\ i' = 1
       ELSE pc' = "images" /\ i' = i + 1
    /\ j' = 1
    /\ local_images' = <<>>
    /\ fetches' = <<>>
    /\ UNCHANGED <<json_file, feed_data, observations, observation_images, images_dir, truncated,
                   metadata_file>>
    /\ UNCHANGED generatorVars

\* the URL FamlyArchiver.download_observation_image requests
ArchiverObservationImageUrl(image_data) ==
    Url(image_data.secret.prefix, <<"/", image_data.secret.key>>)

\* obs['images'] of the item generate_html is at, <<>> without observation
ArchiverObservationImages(item) ==
    IF item.observation # <<>> THEN item.observation[1].images ELSE <<>>

\* generate_html, the loop over obs['images']: the image is requested while
\* the page is being written
ArchiverFetchObservationImage ==
    /\ pc = "arch_render"
    /\ i <= Len(processed_items)
    /\ LET obs_images == ArchiverObservationImages(processed_items[i])
       IN /\ j <= Len(obs_images)
          /\ \E outcome \in Outcomes :
             LET local_filename == DownloadObservationImage(obs_images[j], outcome)
                 opened == OpenedObservationImage(obs_images[j], outcome)
             IN /\ images_dir' = FilesAfter(images_dir, opened)
                /\ truncated' = TruncatedAfter(truncated, opened, outcome)
                /\ fetches' = IF obs_images[j].secret.t = "missing"
                               THEN fetches
                               ELSE Append(fetches,
                                           [kind |-> "observation", outcome |-> outcome,
                                            url |-> ArchiverObservationImageUrl(obs_images[j])])
                /\ IF local_filename # NoName
                   THEN observation_images' = Append(observation_images, local_filename)
                   ELSE UNCHANGED observation_images
    /\ j' = j + 1
    /\ UNCHANGED <<json_file, feed_data, observations, pc, i, local_images,
                   processed_items, metadata_file>>
    /\ UNCHANGED generatorVars

\* one feed-item div of the archiver's index.html
ArchiverRenderItem(item, obs_filenames) ==
    [post_date |-> FormatDate(item.createdDate),
     post_body |-> PostBody(item),
     images |-> FileNames(item.images),
     observation |-> IF item.observation # <<>>
                     THEN [shown |-> TRUE, remark |-> item.observation[1].remark,
                           images |-> obs_filenames]
                     ELSE NoBlock]

\* generate_html: the rest of the loop body for item i
ArchiverAppendItem ==
    /\ pc = "arch_render"
    /\ i <= Len(processed_items)
    /\ j > Len(ArchiverObservationImages(processed_items[i]))
    /\ html_content' = Append(html_content,
                              ArchiverRenderItem(processed_items[i], observation_images))
    /\ pc' = IF RenderRaises(<<processed_items[i]>>) THEN "crashed" ELSE pc
    /\ i' = i + 1
    /\ j' = 1
    /\ observation_images' = <<>>
    /\ fetches' = <<>>
    /\ UNCHANGED <<json_file, feed_data, observations, local_images,
                   processed_items, images_dir, truncated, metadata_file>>
    /\ UNCHANGED <<gen_items, gen_observations, posts_only, index_html, posts_only_html,
                   gen_input>>

\* create_archive: index.html is written
ArchiverWriteHtml ==
    /\ pc = "arch_render"
    /\ i > Len(processed_items)
    /\ \E now \in Clock :
          index_html' = [written |-> TRUE,
                         exported_on |-> now,
                         total_items |-> Len(processed_items),
                         total_photos |-> CountPhotos(processed_items, FALSE),
                         entries |-> html_content]
    /\ pc' = "rendered"
    /\ UNCHANGED <<json_file, metadata_file, gen_items, gen_observations, posts_only,
                   posts_only_html, gen_input, html_content>>
    /\ UNCHANGED downloaderVars

ArchiverNext ==
    \/ DownloaderInit
    \/ BeginArchive
    \/ AcquireImage
    \/ ArchiverReturnItem
    \/ ArchiverFetchObservationImage
    \/ ArchiverAppendItem
    \/ ArchiverWriteHtml

ArchiverSpec == Init /\ [][ArchiverNext]_vars

\* ================================================================== claims
Last(seq) == seq[Len(seq)]

\* the items of the snapshot on disk
SnapshotItems == metadata_file.processed_items

\* C1: the snapshot written by download_all_images has exactly one processed
\* item per feedItems record of the input, whatever the fetch outcomes were,
\* and total_items is that count.
C1_ItemCount ==
    metadata_file.valid =>
        /\ Len(SnapshotItems) = Len(json_file.feedItems)
        /\ metadata_file.total_items = Len(SnapshotItems)

\* a two-record snapshot in which one item lost an image and the other has none
C1_Witness ==
    /\ metadata_file.written
    /\ Len(json_file.feedItems) = 2
    /\ \E n \in 1..2 : /\ SnapshotItems[n].feedItemId = Str("photos")
                       /\ Len(SnapshotItems[n].images) = 1
    /\ \E n \in 1..2 : /\ SnapshotItems[n].images = <<>>
                       /\ SnapshotItems[n].observation_images = <<>>

\* C2: a request that fails (no response, bad status, timeout, file not
\* written) adds nothing to the item's image lists, does not abort, and the
\* loop moves on to the next image; the item is then emitted with the images
\* acquired so far.
C2_FailedFetchSkipped ==
    [][ /\ ( /\ Len(fetches') = Len(fetches) + 1
             /\ Last(fetches').outcome # "ok" )
           => /\ local_images' = local_images
              /\ observation_images' = observation_images
              /\ pc' \in {"images", "obs_images", "return"}
              /\ i' = i
              /\ j' = j + 1
        /\ ( /\ pc = "return"
             /\ \E k \in 1..Len(fetches) : fetches[k].outcome # "ok" )
           => /\ Len(processed_items') = Len(processed_items) + 1
              /\ Last(processed_items').images = local_images
              /\ Last(processed_items').observation_images = observation_images
              /\ pc' \in {"images", "save"}
      ]_vars

\* the last item was emitted with one image after one of its two requests failed
C2_Witness ==
    /\ pc = "save"
    /\ Len(fetches) = 2
    /\ \E k \in 1..2 : fetches[k].outcome # "ok"
    /\ Len(Last(processed_items).images) = 1

Descending(items) ==
    \A n \in 1..(Len(items) - 1) :
        ~StrLT(items[n].createdDate.v, items[n + 1].createdDate.v)

PostDates(doc) == [n \in 1..Len(doc.entries) |-> doc.entries[n].post_date]

FormattedDates(items) == [n \in 1..Len(items) |-> FormatDate(items[n].createdDate)]

C4_NewestFirst ==
    /\ metadata_file.written => Descending(SnapshotItems)
    /\ index_html.written => PostDates(index_html) = FormattedDates(SnapshotItems)
    /\ posts_only_html.written =>
          PostDates(posts_only_html) =
             FormattedDates(SelectSeq(SnapshotItems,
                                      LAMBDA x : ~(x.embed.t = "dict"
                                                   /\ x.embed.type = "Observation")))

\* pages rendered from a feed whose two records were in ascending date order
C4_Witness ==
    /\ pc = "rendered"
    /\ Len(json_file.feedItems) = 2
    /\ StrLT(SortKey(json_file.feedItems[1]), SortKey(json_file.feedItems[2]))
    /\ Len(posts_only_html.entries) = 2
    /\ SnapshotItems[1].createdDate # SnapshotItems[2].createdDate

\* C5: determinism of the sort across two runs on the same document; not
\* stated here (it compares SortFeedItems with itself).

Range(seq) == {seq[n] : n \in 1..Len(seq)}

HasObservationTag(item) == item.embed.t = "dict" /\ item.embed.type = "Observation"

\* C6: every item of posts-only.html is an item of index.html rendered the
\* same way, and no item whose persisted embed tag has type "Observation" is
\* in posts-only.html, resolved or not.
C6_PostsOnlySubset ==
    pc = "rendered" =>
        /\ Len(posts_only_html.entries) = Len(posts_only)
        /\ \A k \in 1..Len(posts_only) :
              /\ posts_only[k] \in Range(SnapshotItems)
              /\ ~HasObservationTag(posts_only[k])
              /\ posts_only_html.entries[k] \in Range(index_html.entries)
        /\ \A n \in 1..Len(SnapshotItems) :
              HasObservationTag(SnapshotItems[n]) => SnapshotItems[n] \notin Range(posts_only)

\* pages rendered from a snapshot with an unresolved Observation embed and a post
C6_Witness ==
    /\ pc = "rendered"
    /\ Len(posts_only) >= 1
    /\ \E n \in 1..Len(SnapshotItems) :
          /\ HasObservationTag(SnapshotItems[n])
          /\ ~RendersObservationBlock(SnapshotItems[n], gen_observations)

\* an item whose embed names observation "obs-1" while the lookup has no "obs-1"
EmbedsAbsentObs1(item) ==
    /\ item.embed.t = "dict"
    /\ item.embed.observationId = Str("obs-1")
    /\ ~DictHas(gen_observations, Str("obs-1"))

\* C7 as stated: a record embedding the absent observation "obs-1" renders
\* without an observation block and is included in posts-only.html.
C7_AsStated ==
    pc = "rendered" =>
        \A n \in 1..Len(gen_items) :
            EmbedsAbsentObs1(gen_items[n]) =>
                /\ ~index_html.entries[n].observation.shown
                /\ gen_items[n] \in Range(posts_only)

\* C7 amended: such a record renders without an observation block in
\* index.html, and is in posts-only.html exactly when its embed type is not
\* "Observation".
C7_UnresolvedObservation ==
    pc = "rendered" =>
        \A n \in 1..Len(gen_items) :
            EmbedsAbsentObs1(gen_items[n]) =>
                /\ index_html.entries[n].observation = NoBlock
                /\ (gen_items[n] \in Range(posts_only)) <=> (gen_items[n].embed.type # "Observation")

\* pages rendered from a record tagged Observation whose "obs-1" is absent
C7_Witness ==
    /\ pc = "rendered"
    /\ \E n \in 1..Len(gen_items) :
          /\ EmbedsAbsentObs1(gen_items[n])
          /\ gen_items[n].embed.type = "Observation"

\* C8: an item has observation images and an observation block in index.html
\* iff its embed type is "Observation" and its observationId is a key of the
\* observation lookup built from the feed; otherwise it has no observation
\* images and no block.
C8_ObservationBearing ==
    pc = "rendered" =>
        \A n \in 1..Len(processed_items) :
            LET item == processed_items[n]
                bearing == /\ HasObservationTag(item)
                           /\ DictHas(observations, item.embed.observationId)
            IN /\ index_html.entries[n].observation.shown <=> bearing
               /\ ~bearing => /\ item.observation_images = <<>>
                              /\ index_html.entries[n].observation = NoBlock

\* C9: the images acquired so far for the current item are the requests that
\* succeeded, in the order of the record's (the observation's) image list, and
\* the emitted item carries exactly these lists.
StrictlyIncreasing(f) == \A a, b \in DOMAIN f : a < b => f[a] < f[b]

IsSuccessSubsequence(result, refs, events, SameImage(_, _)) ==
    /\ Len(events) = Len(refs)
    /\ \E f \in [1..Len(result) -> 1..Len(refs)] :
          /\ StrictlyIncreasing(f)
          /\ Range(f) = {k \in 1..Len(events) : events[k].outcome = "ok"}
          /\ \A n \in 1..Len(result) : SameImage(result[n], refs[f[n]])

C9_SuccessesInOrder ==
    (i >= 1 /\ pc \notin {"crashed", "exit1"}) =>
        LET item == feed_data.feedItems[i]
            doneImages == IF pc = "images" THEN j - 1 ELSE Len(item.images)
            obsImages == ObservationImagesOf(item, observations)
            doneObs == IF pc = "images" THEN 0
                       ELSE IF pc = "obs_images" THEN j - 1
                       ELSE Len(obsImages)
        IN /\ IsSuccessSubsequence(
                 local_images,
                 SelectSeq(SubSeq(item.images, 1, doneImages),
                           LAMBDA r : UrlTruthy(ImageUrl(r))),
                 SelectSeq(fetches, LAMBDA e : e.kind = "image"),
                 LAMBDA entry, ref : /\ entry.filename.id = ref.imageId.v
                                     /\ entry.width = GetOr0(ref.width))
           /\ IsSuccessSubsequence(
                 observation_images,
                 SelectSeq(SubSeq(obsImages, 1, doneObs),
                           LAMBDA r : r.secret.t # "missing"),
                 SelectSeq(fetches, LAMBDA e : e.kind = "observation"),
                 LAMBDA entry, ref : entry.id = ref.id)
           /\ pc \in {"save", "saved", "gen_loaded", "rendered"} =>
                 /\ processed_items[i].images = local_images
                 /\ processed_items[i].observation_images = observation_images

\* both images of a record acquired, and an observation image after a failed
\* post image
C9_Witness ==
    /\ pc = "save"
    /\ \/ Len(local_images) = 2
       \/ /\ Len(observation_images) = 1
          /\ local_images = <<>>
          /\ Len(fetches) = 2

\* C10: the pages written from the reloaded metadata.json are the pages
\* rendered from the snapshot in memory (processed_items and the lookup
\* keyed by the feed's observation ids).
C10_RoundTrip ==
    pc = "rendered" =>
        /\ index_html = GenerateHtml(processed_items, observations,
                                     index_html.exported_on)
        /\ posts_only_html = GeneratePostsOnlyHtml(PostsOnly(processed_items),
                                                   posts_only_html.exported_on)

\* ------------------------------------------------------------------- C11
\* a run of the rendering stage that finds pages of an earlier run on disk
Rerender == pc = "gen_loaded" /\ pc' = "rendered" /\ index_html.written

CurrentRefName ==
    IF pc = "images"
    THEN LET image == feed_data.feedItems[i].images[j]
         IN [id |-> image.imageId.v,
             ext |-> BeforeFirst(LastPartOrJpg(UrlPath(ImageUrl(image))), "?")]
    ELSE LET ref == ObservationImagesOf(feed_data.feedItems[i], observations)[j]
         IN [id |-> ref.id.v, ext |-> LastPartOrJpg(ref.secret.path)]

\* the names recorded in a list of snapshot items
RecordedNames(items) ==
    UNION {Range(FileNames(items[n].images))
             \cup Range(FileNames(items[n].observation_images)) : n \in 1..Len(items)}

ResolvedUrl(image) ==
    IF UrlTruthy(image.url_big) THEN image.url_big
    ELSE IF UrlTruthy(image.url) THEN image.url
    ELSE UrlMissing

\* C13: for a direct reference that has an imageId, the request goes to
\* url_big when url_big is usable and otherwise to url (so also when url_big
\* is null and url is valid); when neither is usable no request is made and
\* the loop moves on to the next image without an error.
C13_UrlResolution ==
    [][( /\ pc = "images"
         /\ j <= Len(feed_data.feedItems[i].images)
         /\ feed_data.feedItems[i].images[j].imageId.t # "missing" )
       => LET image == feed_data.feedItems[i].images[j]
          IN /\ pc' = "images"
             /\ j' = j + 1
             /\ IF UrlTruthy(ResolvedUrl(image))
                THEN /\ Len(fetches') = Len(fetches) + 1
                     /\ Last(fetches').url = ResolvedUrl(image)
                ELSE fetches' = fetches]_vars

\* ------------------------------------------------------------------- C14
\* the extension the claim gives a path: its last dot-delimited segment
\* without any query string, jpg when the path has no dot
ExpectedExt(path) ==
    LET parts == Split(path, ".")
    IN IF Len(parts) > 1 THEN BeforeFirst(Last(parts), "?") ELSE <<"jpg">>

\* the path the extension of the reference the loop is at is taken from
CurrentRefPath ==
    IF pc = "images"
    THEN UrlPath(ImageUrl(feed_data.feedItems[i].images[j]))
    ELSE ObservationImagesOf(feed_data.feedItems[i], observations)[j].secret.path

\* C14: the file written by a successful acquisition, of a direct or of a
\* secret-addressed reference, has the extension ExpectedExt of the URL path
\* (of the secret's path), which holds no query string.
C14_Extension ==
    [][( /\ Len(fetches') = Len(fetches) + 1
         /\ Last(fetches').outcome = "ok" )
       => /\ [id |-> CurrentRefName.id, ext |-> ExpectedExt(CurrentRefPath)]
                \in images_dir'
          /\ \A name \in images_dir' : "?" \notin Range(name.ext)]_vars

\* ------------------------------------------------------------------- C15
\* the secret-addressed reference the loop is at, in either program
CurrentSecretRef ==
    IF pc = "arch_render"
    THEN ArchiverObservationImages(processed_items[i])[j]
    ELSE ObservationImagesOf(feed_data.feedItems[i], observations)[j]

\* the token with ':' and '+' percent-encoded
RECURSIVE PercentEncoded(_)
PercentEncoded(token) ==
    IF token = <<>> THEN <<>>
    ELSE <<CASE Head(token) = ":" -> "%3A"
             [] Head(token) = "+" -> "%2B"
             [] OTHER -> Head(token)>> \o PercentEncoded(Tail(token))

\* prefix/key/{width}x{height}/path, then ?expires=<token> when there is one
ClaimedSecretUrl(ref) ==
    LET width == IF ref.width.t = "missing" THEN "520" ELSE ref.width.v
        height == IF ref.height.t = "missing" THEN "1040" ELSE ref.height.v
        query == IF ref.secret.expires = <<>> THEN <<>>
                 ELSE <<"?expires=">> \o PercentEncoded(ref.secret.expires)
    IN [t |-> "str", netloc |-> ref.secret.prefix,
        rest |-> <<"/", ref.secret.key, "/", width, "x", height, "/">>
                 \o ref.secret.path \o query]

\* C15: every request made for a secret-addressed reference goes to
\* prefix/key/{width}x{height}/path, with 520 and 1040 for an absent width
\* and height, followed by ?expires= and the percent-encoded token exactly
\* when the secret has one.
C15_SecretUrl ==
    [][( /\ Len(fetches') = Len(fetches) + 1
         /\ Last(fetches').kind = "observation" )
       => Last(fetches').url = ClaimedSecretUrl(CurrentSecretRef)]_vars

\* ------------------------------------------------------------------- C16
\* the body the claim renders for a snapshot item: the rich text as it is
\* when there is some, otherwise the plain body escaped
ClaimedBody(item) ==
    IF item.richTextBody.t = "str" /\ item.richTextBody.v # <<>>
    THEN item.richTextBody.v
    ELSE IF item.body.t = "str" THEN EscapeHtml(item.body.v)
    ELSE <<>>

\* C16: on both pages the body of every snapshot item is its rich text
\* verbatim when that is non-empty and otherwise its plain body, escaped and
\* with <br> for newlines; a record with body "Hi" and no rich text shows Hi.
C16_RenderedBody ==
    pc = "rendered" =>
        /\ \A n \in 1..Len(gen_items) :
              index_html.entries[n].post_body = ClaimedBody(gen_items[n])
        /\ \A n \in 1..Len(posts_only) :
              posts_only_html.entries[n].post_body = ClaimedBody(posts_only[n])

\* ------------------------------------------------------------------- C17
\* a createdDate that parses as an ISO date, with or without a trailing Z
ParsesAsIso(date) ==
    /\ date.t = "str"
    /\ \/ date.v \in {<<1, 1>>, <<1, 2>>}
       \/ /\ Len(date.v) = 3
          /\ date.v[3] = 90
          /\ SubSeq(date.v, 1, 2) \in {<<1, 1>>, <<1, 2>>}

\* C17: a run of the renderer over the loaded snapshot always ends with the
\* pages written, one entry per item, and the date shown for an item is the
\* formatted date when its createdDate parses as ISO-8601 (a trailing Z
\* included) and the stored value itself otherwise: the empty string, a
\* string that is no date, a value that is no string.
C17_FormatDateTotal ==
    [][pc = "gen_loaded" =>
         /\ pc' = "rendered"
         /\ Len(index_html'.entries) = Len(gen_items)
         /\ \A n \in 1..Len(gen_items) :
               LET date == gen_items[n].createdDate
                   shown == index_html'.entries[n].post_date
               IN IF ParsesAsIso(date)
                  THEN shown = [t |-> "formatted", v |-> SubSeq(date.v, 1, 2)]
                  ELSE shown = date]_vars

\* a page rendered from an item whose createdDate is null
C17_Witness ==
    /\ pc = "rendered"
    /\ Len(gen_items) = 1
    /\ gen_items[1].createdDate = DateNull
    /\ index_html.entries[1].post_date = DateNull

\* ------------------------------------------------------------------- C18
\* the image elements of the first n entries of a page
RECURSIVE ImagesShown(_, _)
ImagesShown(entries, n) ==
    IF n = 0 THEN 0
    ELSE Len(entries[n].images) + Len(entries[n].observation.images)
         + ImagesShown(entries, n - 1)

\* C18: on index.html and on posts-only.html the item counter is the number
\* of items on the page and the photo counter the number of image elements
\* on the page (post images and the observation images shown).
C18_Counters ==
    /\ index_html.written =>
          /\ index_html.total_items = Len(index_html.entries)
          /\ index_html.total_photos
                = ImagesShown(index_html.entries, Len(index_html.entries))
    /\ posts_only_html.written =>
          /\ posts_only_html.total_items = Len(posts_only_html.entries)
          /\ posts_only_html.total_photos
                = ImagesShown(posts_only_html.entries, Len(posts_only_html.entries))

\* ------------------------------------------------------------------- C19
\* the last observation of the list that carries the id
LastWithId(obsList, id) ==
    obsList[CHOOSE n \in 1..Len(obsList) :
               /\ obsList[n].id = id
               /\ \A m \in (n + 1)..Len(obsList) : obsList[m].id # id]

\* C19: once the downloader is constructed, the lookup maps every id of the
\* feed's observations list to the last observation of the list carrying
\* it, and has one entry per distinct id and no other; a repeated id does
\* not stop the construction.
C19_LastWins ==
    pc # "start" =>
        LET obsList == json_file.observations
            ids == {obsList[n].id : n \in 1..Len(obsList)}
        IN /\ \A id \in ids : /\ DictHas(observations, id)
                               /\ DictGet(observations, id) = LastWithId(obsList, id)
           /\ {observations[n].k : n \in 1..Len(observations)} = ids
           /\ Len(observations) = Cardinality(ids)

\* a lookup built from a list in which "obs-1" occurs twice, with different
\* content
C19_Witness ==
    /\ pc = "loaded"
    /\ json_file.observations = <<Obs1, Obs1b>>
    /\ Len(observations) = 1

\* ------------------------------------------------------------------- C20
\* the pipeline is writing HTML: FamlyGenerator.create_html_archive, or
\* FamlyArchiver.generate_html
Rendering == pc \in {"gen_loaded", "arch_render"}

\* C20: while a page is being rendered no request is made and no image file
\* is written, whichever program renders.
C20_RenderingOffline ==
    [][Rendering => /\ Len(fetches') # Len(fetches) + 1
                    /\ images_dir' = images_dir]_vars

\* ------------------------------------------------------------------- C21
\* the file the generator was started on is missing or is no JSON
GeneratorInputFatal(input) ==
    input.given /\ (~input.file.written \/ ~input.file.valid)

\* C21: a downloader started on a missing or malformed feed file, and a
\* generator started on a missing or malformed metadata file, end with a
\* non-zero exit status, and no step of such a run writes metadata.json,
\* index.html or posts-only.html.
C21_FatalInput ==
    [][ /\ (pc = "start" /\ json_file.t # "dict")
           => /\ ExitCode(pc') # 0
              /\ UNCHANGED <<metadata_file, index_html, posts_only_html>>
        /\ (gen_input' # gen_input /\ GeneratorInputFatal(gen_input'))
           => /\ ExitCode(pc') # 0
              /\ UNCHANGED <<metadata_file, index_html, posts_only_html>>
        /\ (GeneratorInputFatal(gen_input) /\ ExitCode(pc) # 0)
           => /\ gen_input' # gen_input \/ pc' = pc
              /\ UNCHANGED <<metadata_file, index_html, posts_only_html>>
      ]_vars

\* the downloader ended on a malformed feed file and the generator, started
\* next, found no metadata.json
C21_Witness ==
    /\ json_file = MalformedInput
    /\ pc = "exit1"
    /\ gen_input = [given |-> TRUE, file |-> NoFile]
    /\ metadata_file = NoFile
    /\ index_html = NoDocument

\* ------------------------------------------------------------------- C22
\* a step of the rendering stage: the generator is started, or it renders
RenderingStage == pc = "gen_loaded" \/ gen_input' # gen_input

\* C22: metadata.json changes only at the end of an acquisition run, when
\* every record has been processed, once, and what is then on disk is the
\* whole snapshot; no step leaves a partial file, and no step of the
\* rendering stage changes metadata.json or images/.
C22_WrittenOnceWhole ==
    [][ /\ metadata_file' # metadata_file
           => /\ pc = "save"
              /\ Len(processed_items) = Len(feed_data.feedItems)
              /\ ~metadata_file.written
              /\ metadata_file'.valid
              /\ metadata_file'.processed_items = processed_items
              /\ metadata_file'.total_items = Len(processed_items)
        /\ RenderingStage => UNCHANGED <<metadata_file, images_dir>>
      ]_vars

\* ------------------------------------------------------------------- C23
\* the img src values of a page
RenderedNames(entries) ==
    UNION {Range(entries[n].images) \cup Range(entries[n].observation.images)
             : n \in 1..Len(entries)}

\* the file names that items of the run record or that its pages show
LinkedNames ==
    RecordedNames(processed_items) \cup RecordedNames(SnapshotItems)
        \cup RenderedNames(index_html.entries) \cup RenderedNames(posts_only_html.entries)

\* C23: every file name recorded in an item of the snapshot, and every img
\* src of index.html and posts-only.html, names a file of images/ that was
\* written whole.
C23_NoBrokenLinks ==
    \A name \in LinkedNames : name \in images_dir /\ name \notin truncated

\* ------------------------------------------------------------------- C24
\* the steps of process_feed_item
NormalizingRecord == pc \in {"images", "obs_images", "return"}

\* C24: while a record is normalized the loaded feed document, the
\* observation lookup and the items accumulated so far stay as they are, and
\* no step of the pipeline after loading changes the content or the order of
\* the loaded document's feedItems.
C24_FrameEffect ==
    [][ /\ NormalizingRecord
           => /\ UNCHANGED <<feed_data, observations>>
              /\ Len(processed_items') >= Len(processed_items)
              /\ SubSeq(processed_items', 1, Len(processed_items)) = processed_items
        /\ pc # "start" => feed_data'.feedItems = feed_data.feedItems
      ]_vars

\* ------------------------------------------------------------------- C25
\* the id of the reference the loop is at
CurrentRefId ==
    IF pc = "images"
    THEN feed_data.feedItems[i].images[j].imageId
    ELSE ObservationImagesOf(feed_data.feedItems[i], observations)[j].id

\* the first upto direct references of a record that can be requested, each
\* with its id and the file it names
PostRefs(item, upto) ==
    {[id |-> item.images[k].imageId,
      name |-> DownloadImage(ImageUrl(item.images[k]), item.images[k].imageId, "ok")] :
        k \in {m \in 1..upto : /\ UrlTruthy(ImageUrl(item.images[m]))
                                /\ item.images[m].imageId.t # "missing"}}

\* the first upto references of the observation a record embeds
ObsRefs(item, upto) ==
    LET refs == ObservationImagesOf(item, observations)
    IN {[id |-> refs[k].id, name |-> DownloadObservationImage(refs[k], "ok")] :
          k \in 1..upto}

\* the references the run came to before the one the loop is at
EarlierRefs ==
    LET items == feed_data.feedItems
        done == UNION {PostRefs(items[n], Len(items[n].images))
                         \cup ObsRefs(items[n],
                                      Len(ObservationImagesOf(items[n], observations)))
                         : n \in 1..(i - 1)}
    IN IF pc = "images"
       THEN done \cup PostRefs(items[i], j - 1)
       ELSE done \cup PostRefs(items[i], Len(items[i].images)) \cup ObsRefs(items[i], j - 1)

\* C25: an acquisition that writes a file already in images/ has the id of
\* an earlier reference of the run that names this file: no reference
\* overwrites the file of references that all have another id.
C25_CollisionFree ==
    [][(/\ pc \in {"images", "obs_images"}
        /\ Len(fetches') = Len(fetches) + 1
        /\ Last(fetches').outcome # "fetch_error"
        /\ CurrentRefName \in images_dir)
          => \E ref \in EarlierRefs : ref.name = CurrentRefName /\ ref.id = CurrentRefId
      ]_vars


====
